---- MODULE Spec2Model ----
(***************************************************************************)
(* parallel_chains.py: ToyRetriever (a bounded, case-insensitive substring *)
(* search over an in-memory list of documents, preceded by a fixed sleep)  *)
(* and the __main__ driver that invokes it once, five times in sequence,   *)
(* and five times through a fan-out/join.                                  *)
(*                                                                         *)
(* Strings are sequences of one-character strings, so that lower() and the *)
(* substring test `in` are computed rather than assumed.  Time is a        *)
(* discrete clock `now`: time.sleep(3) is the only operation that takes    *)
(* time, every other step is instantaneous.                                *)
(***************************************************************************)
EXTENDS Integers, Sequences, FiniteSets, TLC

VARIABLES
  documents,    \* the list of Documents handed to the retriever constructors
  retrievers,   \* retriever id -> [documents, k]        (ToyRetriever fields)
  calls,        \* call id -> frame of one _get_relevant_documents invocation
  now,          \* the clock read by time.time()
  mainpc,       \* position of the __main__ script
  i,            \* loop variable of the sequential mode
  start,        \* `start` of the __main__ script
  timings       \* the "Done. Time elapsed" lines logged by __main__

vars == <<documents, retrievers, calls, now, mainpc, i, start, timings>>

----------------------------------------------------------------------------
\* Bounds of the retriever specification (Spec).
MaxDocs == 3      \* longest documents list
MaxK == 2         \* largest k
MaxNegK == 2      \* k ranges over -MaxNegK .. MaxK

\* Program constants.
Latency == 3      \* time.sleep(3)
K == 3            \* ToyRetriever(documents=documents, k=3)
NumRequests == 5  \* for i in range(5)
NumRetrievers == 5 \* {str(i): ... for i in range(5)}

----------------------------------------------------------------------------
\* str.lower() on the characters the model uses (ASCII letters).
Uppercase ==
  << "A", "B", "C", "D", "E", "F", "G", "H", "I", "J", "K", "L", "M",
     "N", "O", "P", "Q", "R", "S", "T", "U", "V", "W", "X", "Y", "Z" >>

Lowercase ==
  << "a", "b", "c", "d", "e", "f", "g", "h", "i", "j", "k", "l", "m",
     "n", "o", "p", "q", "r", "s", "t", "u", "v", "w", "x", "y", "z" >>

LowerChar(c) ==
  IF \E n \in 1..Len(Uppercase) : Uppercase[n] = c
  THEN Lowercase[CHOOSE n \in 1..Len(Uppercase) : Uppercase[n] = c]
  ELSE c

\* s.lower()
ToLower(s) == [n \in 1..Len(s) |-> LowerChar(s[n])]

\* sub in s  (Python's substring test; the empty string is in every string)
Contains(sub, s) ==
  \E off \in 0..(Len(s) - Len(sub)) :
    \A n \in 1..Len(sub) : s[off + n] = sub[n]

\* Mutant: the operands of `in` swapped.
MatchesReversed(query, document) ==
  Contains(ToLower(document.page_content), ToLower(query))

\* Mutant: only the first character of the query is looked for.
MatchesFirstChar(query, document) ==
  Contains(IF Len(query) = 0 THEN <<>> ELSE <<LowerChar(query[1])>>,
           ToLower(document.page_content))

\* query.lower() in document.page_content.lower()
Matches(query, document) ==
  Contains(ToLower(query), ToLower(document.page_content))

\* Mutant: the stopping check made one element later.
StopCheckLate(matching_documents, k) == Len(matching_documents) > k + 1

\* Mutant: the stopping check made with >=.
StopCheckGE(matching_documents, k) == Len(matching_documents) >= k

\* len(matching_documents) > self.k
StopCheck(matching_documents, k) == Len(matching_documents) > k

----------------------------------------------------------------------------
\* The documents of the __main__ script.
\* "Dogs are great companions, known for their loyalty and friendliness."
DogsText ==
  <<
    "D", "o", "g", "s", " ", "a", "r", "e", " ", "g", "r", "e", "a", "t",
    " ", "c", "o", "m", "p", "a", "n", "i", "o", "n", "s", ",", " ", "k",
    "n", "o", "w", "n", " ", "f", "o", "r", " ", "t", "h", "e", "i", "r",
    " ", "l", "o", "y", "a", "l", "t", "y", " ", "a", "n", "d", " ", "f",
    "r", "i", "e", "n", "d", "l", "i", "n", "e", "s", "s", "." >>

Dogs ==
  [page_content |-> DogsText,
   metadata |-> [type |-> "dog", trait |-> "loyalty"]]

\* "Cats are independent pets that often enjoy their own space."
CatsText ==
  <<
    "C", "a", "t", "s", " ", "a", "r", "e", " ", "i", "n", "d", "e", "p",
    "e", "n", "d", "e", "n", "t", " ", "p", "e", "t", "s", " ", "t", "h",
    "a", "t", " ", "o", "f", "t", "e", "n", " ", "e", "n", "j", "o", "y",
    " ", "t", "h", "e", "i", "r", " ", "o", "w", "n", " ", "s", "p", "a",
    "c", "e", "." >>

Cats ==
  [page_content |-> CatsText,
   metadata |-> [type |-> "cat", trait |-> "independence"]]

\* "Goldfish are popular pets for beginners, requiring relatively simple care."
GoldfishText ==
  <<
    "G", "o", "l", "d", "f", "i", "s", "h", " ", "a", "r", "e", " ", "p",
    "o", "p", "u", "l", "a", "r", " ", "p", "e", "t", "s", " ", "f", "o",
    "r", " ", "b", "e", "g", "i", "n", "n", "e", "r", "s", ",", " ", "r",
    "e", "q", "u", "i", "r", "i", "n", "g", " ", "r", "e", "l", "a", "t",
    "i", "v", "e", "l", "y", " ", "s", "i", "m", "p", "l", "e", " ", "c",
    "a", "r", "e", "." >>

Goldfish ==
  [page_content |-> GoldfishText,
   metadata |-> [type |-> "fish", trait |-> "low maintenance"]]

\* "Parrots are intelligent birds capable of mimicking human speech."
ParrotsText ==
  <<
    "P", "a", "r", "r", "o", "t", "s", " ", "a", "r", "e", " ", "i", "n",
    "t", "e", "l", "l", "i", "g", "e", "n", "t", " ", "b", "i", "r", "d",
    "s", " ", "c", "a", "p", "a", "b", "l", "e", " ", "o", "f", " ", "m",
    "i", "m", "i", "c", "k", "i", "n", "g", " ", "h", "u", "m", "a", "n",
    " ", "s", "p", "e", "e", "c", "h", "." >>

Parrots ==
  [page_content |-> ParrotsText,
   metadata |-> [type |-> "bird", trait |-> "intelligence"]]

\* "Rabbits are social animals that need plenty of space to hop around."
RabbitsText ==
  <<
    "R", "a", "b", "b", "i", "t", "s", " ", "a", "r", "e", " ", "s", "o",
    "c", "i", "a", "l", " ", "a", "n", "i", "m", "a", "l", "s", " ", "t",
    "h", "a", "t", " ", "n", "e", "e", "d", " ", "p", "l", "e", "n", "t",
    "y", " ", "o", "f", " ", "s", "p", "a", "c", "e", " ", "t", "o", " ",
    "h", "o", "p", " ", "a", "r", "o", "u", "n", "d", "." >>

Rabbits ==
  [page_content |-> RabbitsText,
   metadata |-> [type |-> "rabbit", trait |-> "social"]]

\* documents = [Document(...), ...]
SampleDocuments == <<Dogs, Cats, Goldfish, Parrots, Rabbits>>

\* The query of every chain.invoke / map_chain.invoke: 'that'
That == <<"t", "h", "a", "t">>

----------------------------------------------------------------------------
\* Inputs of the retriever specification: documents, k and query.
DocPool ==
  { [page_content |-> <<"A", "b">>, metadata |-> [type |-> "x", trait |-> "p"]],
    [page_content |-> <<"b", "a">>, metadata |-> [type |-> "y", trait |-> "p"]],
    [page_content |-> <<"a">>,      metadata |-> [type |-> "x", trait |-> "q"]],
    [page_content |-> <<>>,         metadata |-> [type |-> "y", trait |-> "q"]] }

DocLists == UNION { [1..n -> DocPool] : n \in 0..MaxDocs }

KRange == (0 - MaxNegK)..MaxK

Queries == { <<>>, <<"a">>, <<"B">>, <<"a", "B">>, <<"b", "b">> }

----------------------------------------------------------------------------
\* The frame of one invocation of _get_relevant_documents on retriever r.
NewCall(r, q) ==
  [pc |-> "called", retriever |-> r, query |-> q, start |-> 0, wake |-> 0,
   idx |-> 0, matching_documents |-> <<>>, result |-> <<>>, finish |-> 0]

\* self of the invocation
Self(c) == retrievers[calls[c].retriever]

\* the invocation has logged "Replying with results" and returned
Replied(c) == c \in DOMAIN calls /\ calls[c].pc = "replied"

\* The result of the latest finished call on the retriever of call c.
PreviousResult(c) ==
  LET prev == { d \in DOMAIN calls : /\ calls[d].retriever = calls[c].retriever
                                      /\ calls[d].pc = "replied" }
  IN  IF prev = {} THEN <<>>
      ELSE calls[CHOOSE d \in prev : \A e \in prev : e <= d].result

\* start = time.time(); log "Processing query"; enter time.sleep(3)
Begin(c) ==
  /\ calls[c].pc = "called"
  /\ calls' = [calls EXCEPT ![c].pc = "sleeping",
                            ![c].start = now,
                            ![c].wake = now + Latency]
  /\ UNCHANGED <<documents, retrievers, now, mainpc, i, start, timings>>

\* Mutant: the result list lives on the retriever and is not reset.
AwakeKeep(c) ==
  /\ calls[c].pc = "sleeping"
  /\ now >= calls[c].wake
  /\ calls' = [calls EXCEPT ![c].pc = "scan",
                            ![c].matching_documents = PreviousResult(c),
                            ![c].idx = 1]
  /\ UNCHANGED <<documents, retrievers, now, mainpc, i, start, timings>>

\* time.sleep(3) returns; matching_documents = []; the for loop is entered
Awake(c) ==
  /\ calls[c].pc = "sleeping"
  /\ now >= calls[c].wake
  /\ calls' = [calls EXCEPT ![c].pc = "scan",
                            ![c].matching_documents = <<>>,
                            ![c].idx = 1]
  /\ UNCHANGED <<documents, retrievers, now, mainpc, i, start, timings>>

\* Mutant: the loop consumes self.documents (pop) instead of iterating over it.
ScanStepConsume(c) ==
  /\ calls[c].pc = "scan"
  /\ 1 <= Len(Self(c).documents)
  /\ LET document == Self(c).documents[1]
         matching == calls[c].matching_documents
     IN  IF StopCheck(matching, Self(c).k)
         THEN /\ calls' = [calls EXCEPT ![c].pc = "replied",
                                        ![c].result = matching,
                                        ![c].finish = now]
              /\ UNCHANGED retrievers
         ELSE /\ calls' = [calls EXCEPT
                     ![c].matching_documents =
                        IF Matches(calls[c].query, document)
                        THEN Append(matching, document) ELSE matching]
              /\ retrievers' = [retrievers EXCEPT
                     ![calls[c].retriever].documents = Tail(@)]
  /\ UNCHANGED <<documents, now, mainpc, i, start, timings>>

\* One iteration of `for document in self.documents`: the stopping check and
\* early return, else the substring test and the append.
ScanStep(c) ==
  /\ calls[c].pc = "scan"
  /\ calls[c].idx <= Len(Self(c).documents)
  /\ LET document == Self(c).documents[calls[c].idx]
         matching == calls[c].matching_documents
     IN  IF StopCheck(matching, Self(c).k)
         THEN calls' = [calls EXCEPT ![c].pc = "replied",
                                     ![c].result = matching,
                                     ![c].finish = now]
         ELSE calls' = [calls EXCEPT
                     ![c].matching_documents =
                        IF Matches(calls[c].query, document)
                        THEN Append(matching, document) ELSE matching,
                     ![c].idx = @ + 1]
  /\ UNCHANGED <<documents, retrievers, now, mainpc, i, start, timings>>

\* The loop is exhausted: log "Replying with results"; return matching_documents
ReturnEnd(c) ==
  /\ calls[c].pc = "scan"
  /\ calls[c].idx > Len(Self(c).documents)
  /\ calls' = [calls EXCEPT ![c].pc = "replied",
                            ![c].result = calls[c].matching_documents,
                            ![c].finish = now]
  /\ UNCHANGED <<documents, retrievers, now, mainpc, i, start, timings>>

\* Time passes only while every running invocation is inside time.sleep.
Tick ==
  /\ \E c \in DOMAIN calls : calls[c].pc = "sleeping"
  /\ \A c \in DOMAIN calls :
        \/ calls[c].pc = "replied"
        \/ calls[c].pc = "sleeping" /\ calls[c].wake > now
  /\ now' = now + 1
  /\ UNCHANGED <<documents, retrievers, calls, mainpc, i, start, timings>>

----------------------------------------------------------------------------
\* Retriever specification: one ToyRetriever(documents, k) with any documents
\* list and any k, invoked once with any query.
Init ==
  /\ documents \in DocLists
  /\ \E k \in KRange : retrievers = (0 :> [documents |-> documents, k |-> k])
  /\ calls = <<>>
  /\ now = 0
  /\ mainpc = "caller"
  /\ i = 0
  /\ start = 0
  /\ timings = <<>>

\* retriever._get_relevant_documents(q) is called
GetRelevantDocuments(q) ==
  /\ mainpc = "caller"
  /\ calls' = (0 :> NewCall(0, q))
  /\ mainpc' = "waiting"
  /\ UNCHANGED <<documents, retrievers, now, i, start, timings>>

\* the caller receives the returned list
Returned ==
  /\ mainpc = "waiting"
  /\ calls[0].pc = "replied"
  /\ mainpc' = "returned"
  /\ UNCHANGED <<documents, retrievers, calls, now, i, start, timings>>

Next ==
  \/ \E q \in Queries : GetRelevantDocuments(q)
  \/ \E c \in DOMAIN calls : Begin(c)
  \/ \E c \in DOMAIN calls : Awake(c)
  \/ \E c \in DOMAIN calls : ScanStep(c)
  \/ \E c \in DOMAIN calls : ReturnEnd(c)
  \/ Tick
  \/ Returned

Spec == Init /\ [][Next]_vars

\* The invocation runs on a thread that is scheduled until it returns.
FairSpec == Spec /\ WF_vars(Next)

----------------------------------------------------------------------------
\* Driver specification: the __main__ script.
SingleCall == 0
SeqCall(n) == 1 + n
ParCalls == (NumRequests + 1)..(NumRequests + NumRetrievers)
ParRetriever(c) == c - NumRequests
SeqCalls == { SeqCall(n) : n \in 0..(NumRequests - 1) }

Done(mode) == Append(timings, [mode |-> mode, elapsed |-> now - start])

InitMain ==
  /\ documents = SampleDocuments
  /\ retrievers = (0 :> [documents |-> documents, k |-> K])
  /\ calls = <<>>
  /\ now = 0
  /\ mainpc = "single"
  /\ i = 0
  /\ start = 0
  /\ timings = <<>>

\* start = time.time(); chain.invoke("that")
SingleInvoke ==
  /\ mainpc = "single"
  /\ start' = now
  /\ calls' = (SingleCall :> NewCall(0, That)) @@ calls
  /\ mainpc' = "single_wait"
  /\ UNCHANGED <<documents, retrievers, now, i, timings>>

\* chain.invoke returns; log "Done"
SingleDone ==
  /\ mainpc = "single_wait"
  /\ Replied(SingleCall)
  /\ timings' = Done("single")
  /\ mainpc' = "seq_start"
  /\ UNCHANGED <<documents, retrievers, calls, now, i, start>>

\* start = time.time(); for i in range(5):
SeqStart ==
  /\ mainpc = "seq_start"
  /\ start' = now
  /\ i' = 0
  /\ mainpc' = "seq"
  /\ UNCHANGED <<documents, retrievers, calls, now, timings>>

\* chain.invoke('that') of iteration i
SeqInvoke ==
  /\ mainpc = "seq"
  /\ i < NumRequests
  /\ calls' = (SeqCall(i) :> NewCall(0, That)) @@ calls
  /\ mainpc' = "seq_wait"
  /\ UNCHANGED <<documents, retrievers, now, i, start, timings>>

\* Mutant: invoke does not wait for the reply.
SeqReturnNoWait ==
  /\ mainpc = "seq_wait"
  /\ i' = i + 1
  /\ mainpc' = "seq"
  /\ UNCHANGED <<documents, retrievers, calls, now, start, timings>>

\* chain.invoke of iteration i returns; next iteration
SeqReturn ==
  /\ mainpc = "seq_wait"
  /\ Replied(SeqCall(i))
  /\ i' = i + 1
  /\ mainpc' = "seq"
  /\ UNCHANGED <<documents, retrievers, calls, now, start, timings>>

\* the loop is over; log "Done"
SeqDone ==
  /\ mainpc = "seq"
  /\ i = NumRequests
  /\ timings' = Done("sequential")
  /\ mainpc' = "par"
  /\ UNCHANGED <<documents, retrievers, calls, now, i, start>>

\* Mutant: the map runs its retrievers one after the other.
ParInvokeSerial ==
  /\ mainpc = "par"
  /\ \A c \in DOMAIN calls : calls[c].pc = "replied"
  /\ LET n == Cardinality(DOMAIN calls \cap ParCalls)
         c == NumRequests + n + 1
     IN  /\ start' = IF n = 0 THEN now ELSE start
         /\ retrievers' = (ParRetriever(c) :> [documents |-> documents, k |-> K])
                             @@ retrievers
         /\ calls' = (c :> NewCall(ParRetriever(c), That)) @@ calls
         /\ mainpc' = IF n + 1 = NumRetrievers THEN "par_wait" ELSE "par"
  /\ UNCHANGED <<documents, now, i, timings>>

\* start = time.time(); the five retrievers are built; map_chain.invoke('that')
\* hands one invocation per retriever to the fan-out
ParInvoke ==
  /\ mainpc = "par"
  /\ start' = now
  /\ retrievers' = [r \in 1..NumRetrievers |-> [documents |-> documents, k |-> K]]
                      @@ retrievers
  /\ calls' = [c \in ParCalls |-> NewCall(ParRetriever(c), That)] @@ calls
  /\ mainpc' = "par_wait"
  /\ UNCHANGED <<documents, now, i, timings>>

\* the join: map_chain.invoke returns when every branch has; log "Done"
ParDone ==
  /\ mainpc = "par_wait"
  /\ \A c \in ParCalls : Replied(c)
  /\ timings' = Done("parallel")
  /\ mainpc' = "done"
  /\ UNCHANGED <<documents, retrievers, calls, now, i, start>>

NextMain ==
  \/ SingleInvoke
  \/ SingleDone
  \/ SeqStart
  \/ SeqInvoke
  \/ SeqReturn
  \/ SeqDone
  \/ ParInvoke
  \/ ParDone
  \/ \E c \in DOMAIN calls : Begin(c)
  \/ \E c \in DOMAIN calls : Awake(c)
  \/ \E c \in DOMAIN calls : ScanStep(c)
  \/ \E c \in DOMAIN calls : ReturnEnd(c)
  \/ Tick

SpecMain == InitMain /\ [][NextMain]_vars

----------------------------------------------------------------------------
\* Properties.

\* body contains q as a substring, both compared lower-cased
ContainsCI(q, body) ==
  \E off \in 0..(Len(body) - Len(q)) :
    \A n \in 1..Len(q) : LowerChar(body[off + n]) = LowerChar(q[n])

\* the records of docs that match q, in order
MatchingRecords(q, docs) ==
  LET Hit(d) == ContainsCI(q, d.page_content) IN SelectSeq(docs, Hit)

Min(a, b) == IF a <= b THEN a ELSE b
Max(a, b) == IF a >= b THEN a ELSE b

\* C1: for k >= 0 (the case the documentation of k is about), the returned
\* list has at most k records.
C1_AtMostK ==
  \A c \in DOMAIN calls :
    (calls[c].pc = "replied" /\ Self(c).k >= 0)
       => Len(calls[c].result) <= Self(c).k

\* C2 as stated: for every integer k the returned list has at most k+1 records.
C2_AtMostKPlusOne ==
  \A c \in DOMAIN calls :
    calls[c].pc = "replied" => Len(calls[c].result) <= Self(c).k + 1

\* C2 amended: the returned list has at most max(k+1, 0) records, that is at
\* most k+1 whenever k >= -1 and none when k < -1.
C2_AtMostKPlusOneOrNone ==
  \A c \in DOMAIN calls :
    calls[c].pc = "replied"
       => Len(calls[c].result) <= Max(Self(c).k + 1, 0)

\* C2 witness: an early return with exactly k+1 records, k >= 0.
C2_Witness ==
  \E c \in DOMAIN calls :
    /\ calls[c].pc = "replied"
    /\ Self(c).k >= 0
    /\ calls[c].idx <= Len(Self(c).documents)
    /\ Len(calls[c].result) = Self(c).k + 1

\* C3: at every point of the scan and on return, every collected record's
\* body contains the query case-insensitively.
C3_EveryResultContainsQuery ==
  \A c \in DOMAIN calls :
    /\ \A n \in 1..Len(calls[c].matching_documents) :
          ContainsCI(calls[c].query, calls[c].matching_documents[n].page_content)
    /\ \A n \in 1..Len(calls[c].result) :
          ContainsCI(calls[c].query, calls[c].result[n].page_content)

\* C3 witness: a returned record that matches only because of the case folding,
\* with a non-matching record in the list.
C3_Witness ==
  \E c \in DOMAIN calls :
    /\ calls[c].pc = "replied"
    /\ \E n \in 1..Len(calls[c].result) :
          ~Contains(calls[c].query, calls[c].result[n].page_content)
    /\ \E n \in 1..Len(Self(c).documents) :
          ~ContainsCI(calls[c].query, Self(c).documents[n].page_content)

C5_ThatReturnsNothing ==
  \A c \in DOMAIN calls :
    (calls[c].pc = "replied" /\ calls[c].query = That) => calls[c].result = <<>>

\* C5 amended: with the sample documents and k=3 the query "that" returns the
\* Cats record and the Rabbits record, in this order.
C5_ThatReturnsCatsAndRabbits ==
  \A c \in DOMAIN calls :
    (calls[c].pc = "replied" /\ calls[c].query = That)
       => calls[c].result = <<Cats, Rabbits>>

\* C5 witness: the single invocation has returned the two records.
C5_Witness ==
  /\ Replied(SingleCall)
  /\ Self(SingleCall) = [documents |-> SampleDocuments, k |-> K]
  /\ calls[SingleCall].query = That
  /\ Len(calls[SingleCall].result) = 2

\* C6: an invocation whose query is in no record returns the empty list, and
\* every invocation returns.
C6_AbsentQueryReturnsEmpty ==
  /\ [](\A c \in DOMAIN calls :
          (/\ calls[c].pc = "replied"
           /\ \A n \in 1..Len(Self(c).documents) :
                 ~ContainsCI(calls[c].query, Self(c).documents[n].page_content))
             => calls[c].result = <<>>)
  /\ ((0 \in DOMAIN calls) ~> Replied(0))

\* C6 witness: a non-empty list, no record of which contains the query, has
\* been scanned to its end and the empty list returned.
C6_Witness ==
  \E c \in DOMAIN calls :
    /\ calls[c].pc = "replied"
    /\ Len(Self(c).documents) >= 2
    /\ Self(c).k >= 0
    /\ Len(calls[c].query) > 0
    /\ \A n \in 1..Len(Self(c).documents) :
          ~ContainsCI(calls[c].query, Self(c).documents[n].page_content)
    /\ calls[c].result = <<>>

\* C7: two finished invocations with the same records, k and query have the
\* same result, whichever mode made them and whatever ran before or beside.
C7_ResultDependsOnInputsOnly ==
  \A c \in DOMAIN calls, d \in DOMAIN calls :
    (/\ calls[c].pc = "replied"
     /\ calls[d].pc = "replied"
     /\ Self(c) = Self(d)
     /\ calls[c].query = calls[d].query)
       => calls[c].result = calls[d].result

\* C7 witness: the single invocation and the first sequential one have both
\* returned a non-empty result from the same retriever.
C7_Witness ==
  /\ Replied(SingleCall)
  /\ Replied(SeqCall(0))
  /\ calls[SingleCall].retriever = calls[SeqCall(0)].retriever
  /\ calls[SeqCall(0)].result # <<>>

\* C8: the five parallel invocations are dispatched together, none leaves its
\* wait before all have entered theirs, "Done" comes after all five replies,
\* and the batch takes 1 x the latency.
C8_ParallelOverlaps ==
  /\ (ParCalls \cap DOMAIN calls # {}) => ParCalls \subseteq DOMAIN calls
  /\ \A c \in ParCalls \cap DOMAIN calls, d \in ParCalls \cap DOMAIN calls :
        calls[c].pc \in {"scan", "replied"} => calls[d].pc # "called"
  /\ mainpc = "done" =>
        /\ \A c \in ParCalls : Replied(c)
        /\ timings[3] = [mode |-> "parallel", elapsed |-> Latency]

\* C8 witness: the parallel batch is done; the five waits covered the same
\* interval.
C8_Witness ==
  /\ mainpc = "done"
  /\ Len(timings) = 3
  /\ timings[3].elapsed = Latency
  /\ \A c \in ParCalls :
        /\ calls[c].start = start
        /\ calls[c].finish = start + Latency

\* C9: sequential call n+1 exists only once call n has replied and starts no
\* earlier than call n finished, at most one sequential call is in its wait,
\* and the mode takes NumRequests x the latency.
C9_SequentialSerialized ==
  /\ \A n \in 0..(NumRequests - 2) :
        SeqCall(n + 1) \in DOMAIN calls =>
           /\ Replied(SeqCall(n))
           /\ calls[SeqCall(n + 1)].pc # "called" =>
                 calls[SeqCall(n + 1)].start >= calls[SeqCall(n)].finish
  /\ Cardinality({c \in SeqCalls \cap DOMAIN calls :
                     calls[c].pc = "sleeping"}) <= 1
  /\ Len(timings) >= 2 =>
        timings[2] = [mode |-> "sequential", elapsed |-> NumRequests * Latency]

\* C9 witness: the sequential mode has logged "Done" after five waits of
\* Latency each, one after the other.
C9_Witness ==
  /\ mainpc = "par"
  /\ timings[2].elapsed = NumRequests * Latency
  /\ \A n \in 0..(NumRequests - 1) :
        /\ calls[SeqCall(n)].start = timings[1].elapsed + n * Latency
        /\ calls[SeqCall(n)].finish = calls[SeqCall(n)].start + Latency

\* C10: no step changes the documents list, an existing retriever's documents
\* or k, or the retriever and query of an existing invocation; a step of one
\* invocation leaves every other invocation's frame as it was.
C10_RetrieversNeverChange ==
  [][/\ documents' = documents
     /\ \A r \in DOMAIN retrievers :
           r \in DOMAIN retrievers' /\ retrievers'[r] = retrievers[r]
     /\ \A c \in DOMAIN calls :
           /\ c \in DOMAIN calls'
           /\ calls'[c].retriever = calls[c].retriever
           /\ calls'[c].query = calls[c].query
     /\ Cardinality({c \in DOMAIN calls : calls'[c] # calls[c]}) <= 1]_vars

\* C10 witness: the five parallel invocations are at different points of
\* their scans and all six retrievers still hold the sample documents, k=3.
C10_Witness ==
  /\ mainpc = "par_wait"
  /\ \E c \in ParCalls, d \in ParCalls :
        /\ calls[c].pc = "scan" /\ calls[c].idx = 3
        /\ calls[d].pc = "replied"
  /\ \A r \in 0..NumRetrievers :
        retrievers[r] = [documents |-> SampleDocuments, k |-> K]
  /\ documents = SampleDocuments

====
